---- MODULE Spec2Model ----
(***************************************************************************)
(* Model of absl::inlined_vector_internal::Storage<T, N, A>                *)
(* (absl/container/internal/inlined_vector.h): the packed size/mode word,  *)
(* the inline/heap union, AllocationTransaction, the element helpers and   *)
(* Initialize / Assign / ShrinkToFit / DestroyAndDeallocate.               *)
(*                                                                         *)
(* Every operation is one action.  Its body is the composition of the      *)
(* helper operators below, each a function from a machine record to a      *)
(* machine record, in the order of the statements of the C++ code.  A      *)
(* thrown exception is the field `thrown`; statements after a throw are    *)
(* skipped and the destructors of the locals run.                          *)
(***************************************************************************)
EXTENDS Integers, Sequences, FiniteSets, TLC

\* ---- bounds -------------------------------------------------------------
N == 2              \* template parameter N: slots of the inline arena
MaxOps == 2         \* Assign / ShrinkToFit calls after Initialize
MaxAllocs == 3      \* buffers the allocator can hand out in one run
WordBits == 8       \* width of size_type

\* largest new_size passed to Initialize / Assign: two above the inline arena,
\* so that a heap buffer can be outgrown
MaxSize == N + 2

\* ---- values -------------------------------------------------------------
Raw == -2           \* a slot holding no object (never built, or destroyed)
MovedFrom == -1     \* value of an object that was the source of a move
DefaultValue == 0   \* value_type()
CopyValue == 7      \* the value a CopyValueAdapter points at
InputValue(i) == i + 1   \* i-th value of the range behind an iterator

\* ---- pointers: <<region, offset>> ---------------------------------------
InlinedData == 0    \* region of data_.inlined.inlined_data
NullPtr == -1       \* nullptr
Garbage == -2       \* bytes of the union that are not a pointer / capacity
InputRange == -3    \* region of the caller's input range
Buffers == 1..MaxAllocs

PtrAdd(p, k) == <<p[1], p[2] + k>>

\* F applied to the value of v: v is evaluated once, as a local variable of
\* the C++ code is
Bind(v, F(_)) == CHOOSE r \in {F(x) : x \in {v}} : TRUE

\* ---- the packed word metadata_.get<1>(): size << 1 | is_allocated --------
\* The operators take any record with a field `word`.
WordMod == 2 ^ WordBits

GetSize(m) == m.word \div 2

GetIsAllocated(m) == (m.word % 2) = 1

SetIsAllocated(m) == [m EXCEPT !.word = IF @ % 2 = 1 THEN @ ELSE @ + 1]

\* variant: the bit is set and not cleared
UnsetIsAllocatedKeepsBit(m) == SetIsAllocated(m)

UnsetIsAllocated(m) == [SetIsAllocated(m) EXCEPT !.word = (@ - 1) % WordMod]

SetAllocatedSize(m, size) == [m EXCEPT !.word = ((size * 2) % WordMod) + 1]

SetInlinedSize(m, size) == [m EXCEPT !.word = (size * 2) % WordMod]

\* variant: the mode bit is cleared
SetSizeDropsMode(m, size) == SetInlinedSize(m, size)

SetSize(m, size) ==
  [m EXCEPT !.word = ((size * 2) % WordMod) + (IF GetIsAllocated(m) THEN 1 ELSE 0)]

\* variant: the count is added without the shift
AddSizeUnshifted(m, count) == [m EXCEPT !.word = (@ + count) % WordMod]

AddSize(m, count) == [m EXCEPT !.word = (@ + ((count * 2) % WordMod)) % WordMod]

SubtractSize(m, count) == [m EXCEPT !.word = (@ - ((count * 2) % WordMod)) % WordMod]

\* ---- memory -------------------------------------------------------------
RawSlots(n) == [i \in 1..n |-> Raw]

UnusedBuffer == [st |-> "unused", cap |-> 0, slots |-> <<>>, frees |-> 0, freecap |-> 0]

\* a slot the program may touch: inside the inline arena or a live buffer
ValidSlot(m, p) ==
  IF p[1] = InlinedData THEN p[2] >= 0 /\ p[2] < N
  ELSE /\ p[1] \in Buffers
       /\ m.heap[p[1]].st = "live"
       /\ p[2] >= 0 /\ p[2] < m.heap[p[1]].cap

ReadSlot(m, p) ==
  IF ~ValidSlot(m, p) THEN Raw
  ELSE IF p[1] = InlinedData THEN m.data.inlined[p[2] + 1]
  ELSE m.heap[p[1]].slots[p[2] + 1]

WriteSlot(m, p, v) ==
  IF ~ValidSlot(m, p) THEN [m EXCEPT !.errs = @ \cup {"wild access"}]
  ELSE IF p[1] = InlinedData
       THEN [m EXCEPT !.data.inlined[p[2] + 1] = v]
       ELSE [m EXCEPT !.heap[p[1]].slots[p[2] + 1] = v]

Log(m, kind, p, x) == [m EXCEPT !.trace = Append(@, <<kind, p, x>>)]

\* ---- allocator ----------------------------------------------------------
FreshBuffer(heap) == CHOOSE b \in Buffers :
  /\ heap[b].st = "unused"
  /\ \A c \in Buffers : c < b => heap[c].st # "unused"

HasFreshBuffer(heap) == \E b \in Buffers : heap[b].st = "unused"

\* AllocatorTraits::allocate: throws when m.allocFail, else returns in m.ret
AllocatorAllocate(m, capacity) ==
  IF m.allocFail \/ ~HasFreshBuffer(m.heap)
  THEN [m EXCEPT !.thrown = TRUE, !.badAlloc = TRUE]
  ELSE LET b == FreshBuffer(m.heap) IN
       Log([m EXCEPT !.heap[b] = [st |-> "live", cap |-> capacity,
                                  slots |-> RawSlots(capacity),
                                  frees |-> 0, freecap |-> 0],
                     !.ret = b],
           "alloc", <<b, 0>>, capacity)

\* AllocatorTraits::deallocate(alloc, p, n)
AllocatorDeallocate(m, p, capacity) ==
  IF p \notin Buffers \/ m.heap[p].st = "unused"
  THEN Log([m EXCEPT !.errs = @ \cup {"free of wild pointer"}],
           "dealloc", <<p, 0>>, capacity)
  ELSE LET e1 == IF m.heap[p].st = "freed" THEN {"double free"} ELSE {}
           e2 == IF m.heap[p].st = "live" /\ m.heap[p].cap # capacity
                 THEN {"free with wrong capacity"} ELSE {}
           e3 == IF m.heap[p].st = "live"
                    /\ \E i \in 1..m.heap[p].cap : m.heap[p].slots[i] # Raw
                 THEN {"free with live elements"} ELSE {}
       IN Log([m EXCEPT !.heap[p].st = "freed",
                        !.heap[p].frees = @ + 1,
                        !.heap[p].freecap = capacity,
                        !.errs = @ \cup e1 \cup e2 \cup e3],
              "dealloc", <<p, 0>>, capacity)

\* ---- union Data ---------------------------------------------------------
\* data_.inlined and data_.allocated share their bytes: building an object in
\* the inline arena overwrites allocated_data / allocated_capacity.
TrampleAllocated(m, p) ==
  IF p[1] = InlinedData
  THEN [m EXCEPT !.data.allocated_data = Garbage,
                 !.data.allocated_capacity = Garbage]
  ELSE m

\* ---- element operations (allocator_traits and value_type) ---------------
\* AllocatorTraits::construct(alloc, p, v): the failAt-th element operation
\* of the call throws; a throwing constructor leaves no object behind.
AllocatorConstruct(m, p, v) ==
  LET m1 == [m EXCEPT !.calls = @ + 1] IN
  IF m1.calls = m1.failAt
  THEN Log([(IF m1.torn THEN TrampleAllocated(m1, p) ELSE m1)
              EXCEPT !.thrown = TRUE], "throw", p, v)
  ELSE LET e == IF ReadSlot(m1, p) # Raw \/ ~ValidSlot(m1, p)
                THEN {"construct over live or wild slot"} ELSE {}
           m2 == WriteSlot(TrampleAllocated(m1, p), p, v)
       IN Log([m2 EXCEPT !.alive = @ + 1, !.errs = @ \cup e], "construct", p, v)

\* AllocatorTraits::destroy(alloc, p)
AllocatorDestroy(m, p) ==
  LET e == IF ReadSlot(m, p) = Raw THEN {"destroy of dead slot"} ELSE {}
      m1 == IF ValidSlot(m, p) THEN WriteSlot(m, p, Raw) ELSE m
  IN Log([m1 EXCEPT !.alive = @ - 1, !.errs = @ \cup e], "destroy", p, 0)

\* *p = v: value_type's assignment; when it throws the target holds the new
\* value or the old one (m.torn)
ElementAssign(m, p, v) ==
  LET m1 == [m EXCEPT !.calls = @ + 1] IN
  IF m1.calls = m1.failAt
  THEN Log([(IF m1.torn /\ ReadSlot(m1, p) # Raw THEN WriteSlot(m1, p, v) ELSE m1)
              EXCEPT !.thrown = TRUE], "throw", p, v)
  ELSE LET e == IF ReadSlot(m1, p) = Raw THEN {"assign to dead slot"} ELSE {} IN
       Log([WriteSlot(m1, p, v) EXCEPT !.errs = @ \cup e], "assign", p, v)

\* ---- value adapters: m.values = [kind, move, it] ------------------------
CopyValueAdapter == [kind |-> "Copy", move |-> FALSE, it |-> <<InputRange, 0>>]

DefaultValueAdapter == [kind |-> "Default", move |-> FALSE, it |-> <<InputRange, 0>>]

IteratorValueAdapter(it) == [kind |-> "Iterator", move |-> FALSE, it |-> it]

MoveIteratorValueAdapter(it) == [kind |-> "Iterator", move |-> TRUE, it |-> it]

\* *it_: an input iterator reads the caller's range, a move iterator reads
\* the element it points at
IteratorDeref(m) ==
  IF m.values.move THEN ReadSlot(m, m.values.it) ELSE InputValue(m.values.it[2])

\* the moved-from source: reset by the move constructor or left as it was
MoveSource(m, src, done) ==
  IF ~m.values.move THEN m
  ELSE LET e == IF ReadSlot(m, src) = Raw THEN {"read of dead slot"} ELSE {}
           m1 == [m EXCEPT !.errs = @ \cup e]
           reset == IF done THEN m.moveResets ELSE m.torn
       IN IF reset /\ ReadSlot(m, src) # Raw
          THEN Log(WriteSlot(m1, src, MovedFrom), "movefrom", src, 0)
          ELSE Log(m1, "movefrom", src, 1)

\* variant: the iterator is not advanced
IteratorConstructNextNoAdvance(m, construct_at) ==
  Bind(AllocatorConstruct(m, construct_at, IteratorDeref(m)),
       LAMBDA m1 : MoveSource(m1, m.values.it, ~m1.thrown))

IteratorConstructNext(m, construct_at) ==
  Bind(AllocatorConstruct(m, construct_at, IteratorDeref(m)),
       LAMBDA m1 :
         IF m1.thrown THEN MoveSource(m1, m.values.it, FALSE)
         ELSE [MoveSource(m1, m.values.it, TRUE)
                 EXCEPT !.values.it = PtrAdd(@, 1)])

\* variant: the iterator is not advanced
IteratorAssignNextNoAdvance(m, assign_at) ==
  Bind(ElementAssign(m, assign_at, IteratorDeref(m)),
       LAMBDA m1 : MoveSource(m1, m.values.it, ~m1.thrown))

IteratorAssignNext(m, assign_at) ==
  Bind(ElementAssign(m, assign_at, IteratorDeref(m)),
       LAMBDA m1 :
         IF m1.thrown THEN MoveSource(m1, m.values.it, FALSE)
         ELSE [MoveSource(m1, m.values.it, TRUE)
                 EXCEPT !.values.it = PtrAdd(@, 1)])

CopyConstructNext(m, construct_at) == AllocatorConstruct(m, construct_at, CopyValue)

CopyAssignNext(m, assign_at) == ElementAssign(m, assign_at, CopyValue)

DefaultConstructNext(m, construct_at) == AllocatorConstruct(m, construct_at, DefaultValue)

DefaultAssignNext(m, assign_at) == ElementAssign(m, assign_at, DefaultValue)

\* values_ptr->ConstructNext / AssignNext, by the adapter's type
ConstructNext(m, construct_at) ==
  CASE m.values.kind = "Copy" -> CopyConstructNext(m, construct_at)
    [] m.values.kind = "Default" -> DefaultConstructNext(m, construct_at)
    [] OTHER -> IteratorConstructNext(m, construct_at)

AssignNext(m, assign_at) ==
  CASE m.values.kind = "Copy" -> CopyAssignNext(m, assign_at)
    [] m.values.kind = "Default" -> DefaultAssignNext(m, assign_at)
    [] OTHER -> IteratorAssignNext(m, assign_at)

\* the i-th value (from 0) an adapter yields, counted from its construction
AdapterValue(a, i) ==
  CASE a.kind = "Copy" -> CopyValue
    [] a.kind = "Default" -> DefaultValue
    [] OTHER -> InputValue(a.it[2] + i)

\* ---- element-lifecycle helpers ------------------------------------------
RECURSIVE DestroyLoop(_, _, _, _)
DestroyLoop(m, destroy_first, destroy_size, i) ==
  IF i >= destroy_size THEN m
  ELSE Bind(AllocatorDestroy(m, PtrAdd(destroy_first, i)),
            LAMBDA m1 : DestroyLoop(m1, destroy_first, destroy_size, i + 1))

DestroyElements(m, destroy_first, destroy_size) ==
  DestroyLoop(m, destroy_first, destroy_size, 0)

\* variant: the catch block rethrows without destroying what was built
RECURSIVE ConstructLoopNoRollback(_, _, _, _)
ConstructLoopNoRollback(m, construct_first, construct_size, i) ==
  IF i >= construct_size THEN m
  ELSE Bind(ConstructNext(m, PtrAdd(construct_first, i)),
            LAMBDA m1 :
              IF m1.thrown THEN m1
              ELSE ConstructLoopNoRollback(m1, construct_first, construct_size, i + 1))

\* variant: the catch block destroys what was built and swallows the exception
RECURSIVE ConstructLoopNoRethrow(_, _, _, _)
ConstructLoopNoRethrow(m, construct_first, construct_size, i) ==
  IF i >= construct_size THEN m
  ELSE Bind(ConstructNext(m, PtrAdd(construct_first, i)),
            LAMBDA m1 :
              IF m1.thrown
              THEN [DestroyElements(m1, construct_first, i) EXCEPT !.thrown = FALSE]
              ELSE ConstructLoopNoRethrow(m1, construct_first, construct_size, i + 1))

\* variant: the catch block also destroys the slot whose construction failed
RECURSIVE ConstructLoopDestroysFailed(_, _, _, _)
ConstructLoopDestroysFailed(m, construct_first, construct_size, i) ==
  IF i >= construct_size THEN m
  ELSE Bind(ConstructNext(m, PtrAdd(construct_first, i)),
            LAMBDA m1 :
              IF m1.thrown
              THEN DestroyElements(m1, construct_first, i + 1)
              ELSE ConstructLoopDestroysFailed(m1, construct_first,
                                               construct_size, i + 1))

RECURSIVE ConstructLoop(_, _, _, _)
ConstructLoop(m, construct_first, construct_size, i) ==
  IF i >= construct_size THEN m
  ELSE Bind(ConstructNext(m, PtrAdd(construct_first, i)),
            LAMBDA m1 :
              IF m1.thrown
              THEN DestroyElements(m1, construct_first, i)
              ELSE ConstructLoop(m1, construct_first, construct_size, i + 1))

ConstructElements(m, construct_first, construct_size) ==
  ConstructLoop(m, construct_first, construct_size, 0)

\* variant: a throwing assignment destroys the elements assigned so far
RECURSIVE AssignLoopDestroysAssigned(_, _, _, _)
AssignLoopDestroysAssigned(m, assign_first, assign_size, i) ==
  IF i >= assign_size THEN m
  ELSE Bind(AssignNext(m, PtrAdd(assign_first, i)),
            LAMBDA m1 :
              IF m1.thrown THEN DestroyElements(m1, assign_first, i)
              ELSE AssignLoopDestroysAssigned(m1, assign_first, assign_size, i + 1))

RECURSIVE AssignLoop(_, _, _, _)
AssignLoop(m, assign_first, assign_size, i) ==
  IF i >= assign_size THEN m
  ELSE Bind(AssignNext(m, PtrAdd(assign_first, i)),
            LAMBDA m1 :
              IF m1.thrown THEN m1
              ELSE AssignLoop(m1, assign_first, assign_size, i + 1))

\* variant: the loop starts at the second slot
AssignElementsSkipsFirst(m, assign_first, assign_size) ==
  AssignLoop(m, assign_first, assign_size, 1)

AssignElements(m, assign_first, assign_size) ==
  AssignLoop(m, assign_first, assign_size, 0)

\* ---- AllocationTransaction: m.tx = [data, capacity] ---------------------
NewAllocationTransaction(m) == [m EXCEPT !.tx = [data |-> NullPtr, capacity |-> 0]]

DidAllocate(m) == m.tx.data # NullPtr

\* variant: the capacity of the buffer is not recorded
AllocateForgetsCapacity(m, capacity) ==
  Bind(AllocatorAllocate(m, capacity),
       LAMBDA a :
         IF a.thrown THEN a
         ELSE Log([a EXCEPT !.tx = [data |-> a.ret, capacity |-> 0]],
                  "hold", <<a.ret, 0>>, 0))

\* variant: one slot more than asked for is allocated
AllocateRoundsUp(m, capacity) ==
  Bind(AllocatorAllocate(m, capacity + 1),
       LAMBDA a :
         IF a.thrown THEN a
         ELSE Log([a EXCEPT !.tx = [data |-> a.ret, capacity |-> capacity + 1]],
                  "hold", <<a.ret, 0>>, capacity + 1))

Allocate(m, capacity) ==
  Bind(AllocatorAllocate(m, capacity),
       LAMBDA a :
         IF a.thrown THEN a
         ELSE Log([a EXCEPT !.tx = [data |-> a.ret, capacity |-> capacity]],
                  "hold", <<a.ret, 0>>, capacity))

\* variant: the destructor releases nothing
DestroyAllocationTransactionLeaks(m) == m

DestroyAllocationTransaction(m) ==
  IF DidAllocate(m)
  THEN AllocatorDeallocate(m, m.tx.data, m.tx.capacity)
  ELSE m

\* ---- Storage accessors --------------------------------------------------
GetInlinedData == <<InlinedData, 0>>

GetAllocatedData(m) == <<m.data.allocated_data, 0>>

GetAllocatedCapacity(m) == m.data.allocated_capacity

\* variant: an inline Storage reports no capacity
MakeStorageViewInlineEmpty(m) ==
  IF GetIsAllocated(m)
  THEN [data |-> GetAllocatedData(m), size |-> GetSize(m),
        capacity |-> GetAllocatedCapacity(m)]
  ELSE [data |-> GetInlinedData, size |-> GetSize(m), capacity |-> 0]

MakeStorageView(m) ==
  IF GetIsAllocated(m)
  THEN [data |-> GetAllocatedData(m), size |-> GetSize(m),
        capacity |-> GetAllocatedCapacity(m)]
  ELSE [data |-> GetInlinedData, size |-> GetSize(m), capacity |-> N]

\* variant: the pointer is stored and the capacity is not
SetAllocatedDataKeepsCapacity(m, data, capacity) ==
  [m EXCEPT !.data.allocated_data = data[1]]

\* writing the Allocated member overwrites the bytes of the inline arena
SetAllocatedData(m, data, capacity) ==
  LET e == IF \E i \in 1..N : m.data.inlined[i] # Raw
           THEN {"allocated fields written over live inline elements"} ELSE {}
  IN [m EXCEPT !.data.allocated_data = data[1],
               !.data.allocated_capacity = capacity,
               !.errs = @ \cup e]

\* variant: the buffer is never handed back
DeallocateIfAllocatedSkips(m) == m

DeallocateIfAllocated(m) ==
  IF GetIsAllocated(m)
  THEN AllocatorDeallocate(m, GetAllocatedData(m)[1], GetAllocatedCapacity(m))
  ELSE m

\* variant: the transaction keeps its record of the buffer
AcquireAllocationKeepsRecord(m) ==
  Log(SetAllocatedData(m, <<m.tx.data, 0>>, m.tx.capacity),
      "adopt", <<m.tx.data, 0>>, m.tx.capacity)

AcquireAllocation(m) ==
  Log([SetAllocatedData(m, <<m.tx.data, 0>>, m.tx.capacity)
         EXCEPT !.tx = [data |-> NullPtr, capacity |-> 0]],
      "adopt", <<m.tx.data, 0>>, m.tx.capacity)

\* ---- Storage operations -------------------------------------------------
\* variant: the elements are left alive
DestroyAndDeallocateOnlyDeallocates(m) == DeallocateIfAllocated(m)

\* variant: the buffer is handed back before the elements are destroyed
DestroyAndDeallocateFreesFirst(m) ==
  Bind(DeallocateIfAllocated(m),
       LAMBDA m1 :
         DestroyElements(m1,
                         IF GetIsAllocated(m) THEN GetAllocatedData(m)
                         ELSE GetInlinedData,
                         GetSize(m)))

DestroyAndDeallocate(m) ==
  Bind(DestroyElements(m,
                       IF GetIsAllocated(m) THEN GetAllocatedData(m)
                       ELSE GetInlinedData,
                       GetSize(m)),
       LAMBDA m1 : DeallocateIfAllocated(m1))

Initialize(m, new_size) ==
  Bind(IF new_size > N
       THEN Bind(AllocatorAllocate(m, new_size),
                 LAMBDA a :
                   IF a.thrown THEN a
                   ELSE SetIsAllocated(SetAllocatedData(a, <<a.ret, 0>>, new_size)))
       ELSE [m EXCEPT !.ret = InlinedData],
  LAMBDA m1 :
  LET construct_data == <<m1.ret, 0>> IN
  Bind(IF m1.thrown THEN m1
       ELSE ConstructElements(m1, construct_data, new_size),
  LAMBDA m2 :
  IF m2.thrown THEN m2 ELSE AddSize(m2, new_size)))

Assign(m, new_size) ==
  LET storage_view == MakeStorageView(m)
      grow == new_size > storage_view.capacity
      fill == ~grow /\ new_size > storage_view.size
      assign_loop ==
        IF grow THEN [data |-> <<NullPtr, 0>>, size |-> 0]
        ELSE IF fill THEN [data |-> storage_view.data, size |-> storage_view.size]
        ELSE [data |-> storage_view.data, size |-> new_size]
      destroy_loop ==
        IF grow THEN [data |-> storage_view.data, size |-> storage_view.size]
        ELSE IF fill THEN [data |-> <<NullPtr, 0>>, size |-> 0]
        ELSE [data |-> PtrAdd(storage_view.data, new_size),
              size |-> storage_view.size - new_size]
  IN
  Bind(NewAllocationTransaction(m),
  LAMBDA m0 :
  Bind(IF grow THEN Allocate(m0, new_size) ELSE m0,
  LAMBDA m1 :
  LET construct_loop ==
        IF grow THEN [data |-> <<m1.tx.data, 0>>, size |-> new_size]
        ELSE IF fill THEN [data |-> PtrAdd(storage_view.data, storage_view.size),
                           size |-> new_size - storage_view.size]
        ELSE [data |-> <<NullPtr, 0>>, size |-> 0]
  IN
  Bind(IF m1.thrown THEN m1
       ELSE AssignElements(m1, assign_loop.data, assign_loop.size),
  LAMBDA m2 :
  Bind(IF m2.thrown THEN m2
       ELSE ConstructElements(m2, construct_loop.data, construct_loop.size),
  LAMBDA m3 :
  Bind(IF m3.thrown THEN m3
       ELSE DestroyElements(m3, destroy_loop.data, destroy_loop.size),
  LAMBDA m4 :
  Bind(IF m4.thrown \/ ~DidAllocate(m4) THEN m4
       ELSE Bind(DeallocateIfAllocated(m4),
                 LAMBDA d : SetIsAllocated(AcquireAllocation(d))),
  LAMBDA m5 :
  Bind(IF m5.thrown THEN m5 ELSE SetSize(m5, new_size),
  LAMBDA m6 :
  DestroyAllocationTransaction(m6))))))))

\* variant: the catch block only rethrows
ShrinkToFitRestoreSkipped(m, storage_view) == m

\* the catch block: put back the fields the inline arena shares
ShrinkToFitRestore(m, storage_view) ==
  SetAllocatedData(m, storage_view.data, storage_view.capacity)

ShrinkToFit(m) ==
  LET storage_view == [data |-> GetAllocatedData(m), size |-> GetSize(m),
                       capacity |-> GetAllocatedCapacity(m)]
      toInline == storage_view.size <= N
      toHeap == ~toInline /\ storage_view.size < GetAllocatedCapacity(m)
  IN
  Bind([NewAllocationTransaction(m)
          EXCEPT !.values = MoveIteratorValueAdapter(storage_view.data)],
  LAMBDA m0 :
  IF ~toInline /\ ~toHeap THEN DestroyAllocationTransaction(m0)
  ELSE
  Bind(IF toInline THEN m0 ELSE Allocate(m0, storage_view.size),
  LAMBDA m1 :
  LET construct_data == IF toInline THEN GetInlinedData ELSE <<m1.tx.data, 0>> IN
  Bind(IF m1.thrown THEN m1
       ELSE Bind(ConstructElements(m1, construct_data, storage_view.size),
                 LAMBDA c :
                   IF c.thrown THEN ShrinkToFitRestore(c, storage_view) ELSE c),
  LAMBDA m2 :
  Bind(IF m2.thrown THEN m2
       ELSE Bind(DestroyElements(m2, storage_view.data, storage_view.size),
                 LAMBDA d :
                   AllocatorDeallocate(d, storage_view.data[1],
                                       storage_view.capacity)),
  LAMBDA m3 :
  Bind(IF m3.thrown THEN m3
       ELSE IF DidAllocate(m3) THEN AcquireAllocation(m3)
       ELSE UnsetIsAllocated(m3),
  LAMBDA m4 :
  DestroyAllocationTransaction(m4))))))

\* ---- the state machine --------------------------------------------------
VARIABLES
  word,    \* metadata_.get<1>(): size << 1 | is_allocated
  data,    \* data_: [allocated_data, allocated_capacity, inlined]
  heap,    \* the allocator's buffers
  phase,   \* "constructed", "live", "failed" (constructor threw), "destroyed";
           \* "word" where only the packed word is exercised
  ops,     \* Assign / ShrinkToFit calls made
  alive,   \* element constructions minus element destructions so far
  errs,    \* undefined behaviour met so far
  last     \* the last call: its arguments, its outcome, its transaction at
           \* scope exit and the state before it

vars == <<word, data, heap, phase, ops, alive, errs, last>>

\* the adapters the constructors pass to Initialize, and those passed to
\* Assign (a constant value stands for both stateless adapters there)
Adapters == {CopyValueAdapter, DefaultValueAdapter,
             IteratorValueAdapter(<<InputRange, 0>>)}

AssignAdapters == {CopyValueAdapter, IteratorValueAdapter(<<InputRange, 0>>)}

Snapshot == [word |-> word, data |-> data, heap |-> heap,
             alive |-> alive, phase |-> phase]

\* the Storage and the allocator now
St == [word |-> word, data |-> data, heap |-> heap]

\* the machine a call starts from
Machine(values, failAt, allocFail, torn, moveResets) ==
  [word |-> word, data |-> data, heap |-> heap,
   tx |-> [data |-> NullPtr, capacity |-> 0],
   values |-> values, calls |-> 0, failAt |-> failAt,
   allocFail |-> allocFail, torn |-> torn, moveResets |-> moveResets,
   thrown |-> FALSE, badAlloc |-> FALSE, ret |-> NullPtr,
   trace |-> <<>>, alive |-> alive, errs |-> errs]

\* the state a call leaves
Commit(op, new_size, values, r) ==
  /\ word' = r.word
  /\ data' = r.data
  /\ heap' = r.heap
  /\ alive' = r.alive
  /\ errs' = r.errs
  /\ last' = [op |-> op, new_size |-> new_size, values |-> values,
              thrown |-> r.thrown, badAlloc |-> r.badAlloc,
              trace |-> r.trace, tx |-> r.tx, pre |-> Snapshot]

Init ==
  /\ word = 0
  /\ data = [allocated_data |-> Garbage, allocated_capacity |-> Garbage,
             inlined |-> RawSlots(N)]
  /\ heap = [b \in Buffers |-> UnusedBuffer]
  /\ phase = "constructed"
  /\ ops = 0
  /\ alive = 0
  /\ errs = {}
  /\ last = [op |-> "Storage", new_size |-> 0, values |-> DefaultValueAdapter,
             thrown |-> FALSE, badAlloc |-> FALSE, trace |-> <<>>,
             tx |-> [data |-> NullPtr, capacity |-> 0],
             pre |-> [word |-> 0,
                      data |-> [allocated_data |-> Garbage,
                                allocated_capacity |-> Garbage,
                                inlined |-> RawSlots(N)],
                      heap |-> [b \in Buffers |-> UnusedBuffer],
                      alive |-> 0, phase |-> "constructed"]]

\* a constructor of the container calls Initialize once; when it throws the
\* constructor fails and only ~Storage() follows
InitializeOp ==
  /\ phase = "constructed"
  /\ \E new_size \in 0..MaxSize, values \in Adapters,
        failAt \in 0..MaxSize, allocFail \in BOOLEAN, torn \in BOOLEAN :
       /\ failAt <= new_size
       /\ allocFail => failAt = 0 /\ new_size > N
       /\ torn => failAt > 0 /\ new_size <= N
       /\ \E m \in {Machine(values, failAt, allocFail, torn, FALSE)} :
            \E r \in {Initialize(m, new_size)} :
              /\ Commit("Initialize", new_size, values, r)
              /\ phase' = IF r.thrown THEN "failed" ELSE "live"
  /\ UNCHANGED ops

AssignOp ==
  /\ phase = "live"
  /\ ops < MaxOps
  /\ HasFreshBuffer(heap)
  /\ \E new_size \in 0..MaxSize, values \in AssignAdapters,
        failAt \in 0..MaxSize, allocFail \in BOOLEAN, torn \in BOOLEAN :
       /\ failAt <= new_size
       /\ allocFail => failAt = 0 /\ new_size > MakeStorageView(St).capacity
       /\ torn => failAt > 0 /\ new_size <= MakeStorageView(St).capacity
       /\ \E m \in {Machine(values, failAt, allocFail, torn, FALSE)} :
            \E r \in {Assign(m, new_size)} :
              Commit("Assign", new_size, values, r)
  /\ ops' = ops + 1
  /\ UNCHANGED phase

ShrinkToFitOp ==
  /\ phase = "live"
  /\ ops < MaxOps
  /\ HasFreshBuffer(heap)
  /\ (word % 2) = 1
  /\ \E failAt \in 0..MaxSize, allocFail \in BOOLEAN, torn \in BOOLEAN,
        moveResets \in BOOLEAN :
       /\ failAt <= word \div 2
       /\ allocFail => failAt = 0 /\ word \div 2 > N
       /\ torn => failAt > 0
       /\ moveResets => failAt # 1
       /\ \E m \in {Machine(DefaultValueAdapter, failAt, allocFail,
                            torn, moveResets)} :
            \E r \in {ShrinkToFit(m)} :
              Commit("ShrinkToFit", 0, DefaultValueAdapter, r)
  /\ ops' = ops + 1
  /\ UNCHANGED phase

\* ~Storage()
DestroyOp ==
  /\ phase \in {"constructed", "live", "failed"}
  /\ \E m \in {Machine(DefaultValueAdapter, 0, FALSE, FALSE, FALSE)} :
       \E r \in {DestroyAndDeallocate(m)} :
         Commit("~Storage", 0, DefaultValueAdapter, r)
  /\ phase' = "destroyed"
  /\ UNCHANGED ops

Next == InitializeOp \/ AssignOp \/ ShrinkToFitOp \/ DestroyOp

Spec == Init /\ [][Next]_vars

\* ---- the packed word on its own ------------------------------------------
\* One accessor of metadata_.get<1>() applied to every value a size_type
\* holds, with every size_type argument.
SizeType == 0..(WordMod - 1)

WordInit ==
  /\ word \in SizeType
  /\ data = [allocated_data |-> Garbage, allocated_capacity |-> Garbage,
             inlined |-> RawSlots(N)]
  /\ heap = [b \in Buffers |-> UnusedBuffer]
  /\ phase = "word"
  /\ ops = 0
  /\ alive = 0
  /\ errs = {}
  /\ last = [op |-> "Storage", new_size |-> 0, values |-> DefaultValueAdapter,
             thrown |-> FALSE, badAlloc |-> FALSE, trace |-> <<>>,
             tx |-> [data |-> NullPtr, capacity |-> 0],
             pre |-> Snapshot]

\* the machine a word accessor is applied to
WordMachine == Machine(DefaultValueAdapter, 0, FALSE, FALSE, FALSE)

SetIsAllocatedOp ==
  /\ phase = "word"
  /\ ops = 0
  /\ \E r \in {SetIsAllocated(WordMachine)} :
       Commit("SetIsAllocated", 0, DefaultValueAdapter, r)
  /\ ops' = 1
  /\ UNCHANGED phase

UnsetIsAllocatedOp ==
  /\ phase = "word"
  /\ ops = 0
  /\ \E r \in {UnsetIsAllocated(WordMachine)} :
       Commit("UnsetIsAllocated", 0, DefaultValueAdapter, r)
  /\ ops' = 1
  /\ UNCHANGED phase

SetAllocatedSizeOp ==
  /\ phase = "word"
  /\ ops = 0
  /\ \E size \in SizeType :
       \E r \in {SetAllocatedSize(WordMachine, size)} :
         Commit("SetAllocatedSize", size, DefaultValueAdapter, r)
  /\ ops' = 1
  /\ UNCHANGED phase

SetInlinedSizeOp ==
  /\ phase = "word"
  /\ ops = 0
  /\ \E size \in SizeType :
       \E r \in {SetInlinedSize(WordMachine, size)} :
         Commit("SetInlinedSize", size, DefaultValueAdapter, r)
  /\ ops' = 1
  /\ UNCHANGED phase

SetSizeOp ==
  /\ phase = "word"
  /\ ops = 0
  /\ \E size \in SizeType :
       \E r \in {SetSize(WordMachine, size)} :
         Commit("SetSize", size, DefaultValueAdapter, r)
  /\ ops' = 1
  /\ UNCHANGED phase

AddSizeOp ==
  /\ phase = "word"
  /\ ops = 0
  /\ \E count \in SizeType :
       \E r \in {AddSize(WordMachine, count)} :
         Commit("AddSize", count, DefaultValueAdapter, r)
  /\ ops' = 1
  /\ UNCHANGED phase

\* assert(count <= GetSize())
SubtractSizeOp ==
  /\ phase = "word"
  /\ ops = 0
  /\ \E count \in SizeType :
       /\ count <= GetSize(WordMachine)
       /\ \E r \in {SubtractSize(WordMachine, count)} :
            Commit("SubtractSize", count, DefaultValueAdapter, r)
  /\ ops' = 1
  /\ UNCHANGED phase

WordNext ==
  \/ SetIsAllocatedOp \/ UnsetIsAllocatedOp
  \/ SetAllocatedSizeOp \/ SetInlinedSizeOp \/ SetSizeOp
  \/ AddSizeOp \/ SubtractSizeOp

WordSpec == WordInit /\ [][WordNext]_vars

\* ---- views of the state -------------------------------------------------
Pre == last.pre

Size(s) == GetSize(s)
IsHeap(s) == GetIsAllocated(s)
View(s) == MakeStorageView(s)

\* value of slot i (from 0) of the active data region of s
Elem(s, i) == ReadSlot(s, PtrAdd(View(s).data, i))

\* number of objects alive in region r of s
LiveIn(s, r) ==
  IF r = InlinedData THEN Cardinality({i \in 1..N : s.data.inlined[i] # Raw})
  ELSE IF r \in Buffers /\ s.heap[r].st = "live"
       THEN Cardinality({i \in 1..s.heap[r].cap : s.heap[r].slots[i] # Raw})
       ELSE 0

LiveTotal(s) == LiveIn(s, InlinedData)
                + Cardinality({<<b, i>> \in Buffers \X (1..(MaxSize + 1)) :
                                 /\ s.heap[b].st = "live"
                                 /\ i <= s.heap[b].cap
                                 /\ s.heap[b].slots[i] # Raw})

Outstanding(s) == Cardinality({b \in Buffers : s.heap[b].st = "live"})

Events(kind) == {i \in 1..Len(last.trace) : last.trace[i][1] = kind}
EventsIn(kind, r) == {i \in Events(kind) : last.trace[i][2][1] = r}

\* the events of one kind of the last call, in the order they happened
EventSeq(kind) == SelectSeq(last.trace, LAMBDA e : e[1] = kind)

\* ---- vocabulary of the properties ---------------------------------------
\* the last call ended by an exception thrown by an element operation
ElementThrew == last.thrown /\ ~last.badAlloc

\* buffers the last call obtained from the allocator
NewBuffers == {b \in Buffers : Pre.heap[b].st = "unused" /\ heap[b].st # "unused"}

\* the last call left every buffer that existed before it as it was
OldBuffersUntouched ==
  \A b \in Buffers : Pre.heap[b].st # "unused" => heap[b] = Pre.heap[b]

\* buffer b was allocated with capacity cap, holds no object and has been
\* deallocated once, with cap
ReleasedOnce(b, cap) ==
  /\ heap[b].st = "freed"
  /\ heap[b].cap = cap
  /\ heap[b].frees = 1
  /\ heap[b].freecap = cap
  /\ \A i \in 1..cap : heap[b].slots[i] = Raw

\* ---- C1 -----------------------------------------------------------------
AssignGrowThrew ==
  /\ last.op = "Assign"
  /\ last.new_size > View(Pre).capacity
  /\ ElementThrew

\* C1: when an element construction throws in Assign with new_size greater
\* than the capacity, the word (size and mode), the data pointer, the
\* capacity and every old element are as before the call, no old element was
\* destroyed, every element built in the new buffer was destroyed, and the
\* new buffer was deallocated exactly once.
C1_AssignGrowIsStrong ==
  AssignGrowThrew =>
    /\ word = Pre.word
    /\ data = Pre.data
    /\ \A i \in 0..(Size(Pre) - 1) :
         Elem(St, i) # Raw /\ Elem(St, i) = Elem(Pre, i)
    /\ OldBuffersUntouched
    /\ Cardinality(NewBuffers) = 1
    /\ \A b \in NewBuffers :
         /\ ReleasedOnce(b, last.new_size)
         /\ Events("destroy") = EventsIn("destroy", b)
         /\ Cardinality(EventsIn("destroy", b))
              = Cardinality(EventsIn("construct", b))
    /\ Cardinality(Events("dealloc")) = 1
    /\ alive = Pre.alive
    /\ errs = {}

\* a heap Storage with elements, the second or a later construction throwing
C1_Witness ==
  /\ AssignGrowThrew
  /\ IsHeap(Pre)
  /\ Size(Pre) > 0
  /\ Cardinality(Events("construct")) > 0

\* ---- C2 -----------------------------------------------------------------
InitializeThrew == last.op = "Initialize" /\ ElementThrew

\* C2 as stated: after a throwing Initialize the Storage is empty and Inline
\* and the buffer of the call has already been freed.
C2_Original ==
  InitializeThrew =>
    /\ Size(St) = 0
    /\ ~IsHeap(St)
    /\ \A b \in NewBuffers : heap[b].st = "freed"

\* C2 amended: after a throwing Initialize the size is 0 and no element is
\* alive; with new_size <= N the Storage is Inline and nothing was allocated;
\* with new_size > N the Storage is in Heap mode and owns the buffer of
\* capacity new_size the call allocated, which is not yet freed; ~Storage()
\* then frees that buffer exactly once.
C2_InitializeThrowLeavesBufferToStorage ==
  /\ InitializeThrew =>
       /\ Size(St) = 0
       /\ LiveTotal(St) = 0
       /\ errs = {}
       /\ last.new_size <= N => ~IsHeap(St) /\ NewBuffers = {}
       /\ last.new_size > N =>
            /\ IsHeap(St)
            /\ NewBuffers = {data.allocated_data}
            /\ data.allocated_capacity = last.new_size
            /\ heap[data.allocated_data].st = "live"
            /\ heap[data.allocated_data].cap = last.new_size
            /\ heap[data.allocated_data].frees = 0
  /\ (last.op = "~Storage" /\ Pre.phase = "failed" /\ IsHeap(Pre)) =>
       /\ ReleasedOnce(Pre.data.allocated_data, Pre.data.allocated_capacity)
       /\ errs = {}

C2_Witness ==
  /\ InitializeThrew
  /\ last.new_size > N
  /\ IsHeap(St)
  /\ Cardinality(Events("destroy")) > 0

\* ---- C3 -----------------------------------------------------------------
\* C3 as stated: a failed Initialize(adapter, k) with k > N leaves no live
\* element and as many outstanding buffers as before the call.
C3_Original ==
  (InitializeThrew /\ last.new_size > N) =>
    /\ LiveTotal(St) = 0
    /\ Outstanding(St) = Outstanding(Pre)

\* C3 amended: when the m-th construction of Initialize(adapter, k), k > N,
\* fails, the call leaves no live element (the m - 1 built ones destroyed) and
\* one outstanding buffer more than before the call; the count is back at its
\* value before the call once ~Storage() has run.
C3_OutstandingRestoredByDestructor ==
  /\ (InitializeThrew /\ last.new_size > N) =>
       /\ LiveTotal(St) = 0
       /\ Cardinality(Events("destroy")) = Cardinality(Events("construct"))
       /\ alive = Pre.alive
       /\ Outstanding(St) = Outstanding(Pre) + 1
  /\ (last.op = "~Storage" /\ Pre.phase = "failed" /\ IsHeap(Pre)) =>
       /\ LiveTotal(St) = 0
       /\ Outstanding(St) = Outstanding(Pre) - 1
       /\ Outstanding(St) = 0

\* the third construction of Initialize(adapter, N + 2) failed
C3_Witness ==
  /\ InitializeThrew
  /\ last.new_size = N + 2
  /\ Cardinality(Events("construct")) = 2
  /\ Outstanding(St) = 1

\* ---- C4 -----------------------------------------------------------------
ShrinkToFitThrew == last.op = "ShrinkToFit" /\ ElementThrew

\* C4: when a relocating construction throws in ShrinkToFit the Storage is
\* still in Heap mode with the pointer, the capacity and the size it had, its
\* elements are still alive in the original buffer, which was not
\* deallocated, nothing is alive in the destination, and a buffer the call
\* allocated was deallocated exactly once.
C4_ShrinkToFitThrowRestores ==
  ShrinkToFitThrew =>
    /\ IsHeap(St)
    /\ word = Pre.word
    /\ data.allocated_data = Pre.data.allocated_data
    /\ data.allocated_capacity = Pre.data.allocated_capacity
    /\ heap[data.allocated_data].st = "live"
    /\ heap[data.allocated_data].frees = 0
    /\ heap[data.allocated_data].cap = data.allocated_capacity
    /\ \A i \in 0..(Size(St) - 1) : Elem(St, i) # Raw
    /\ LiveIn(St, InlinedData) = 0
    /\ LiveTotal(St) = Size(St)
    /\ \A b \in NewBuffers : ReleasedOnce(b, Size(Pre))
    /\ Cardinality(NewBuffers) = (IF Size(Pre) <= N THEN 0 ELSE 1)
    /\ Cardinality(Events("dealloc")) = Cardinality(NewBuffers)
    /\ errs = {}

\* relocation into the inline arena that built an element, overwriting the
\* pointer and the capacity, before it threw
C4_Witness ==
  /\ ShrinkToFitThrew
  /\ Size(Pre) <= N
  /\ Cardinality(EventsIn("construct", InlinedData)) > 0

\* the same with a smaller heap buffer as the destination
C4_WitnessHeap ==
  /\ ShrinkToFitThrew
  /\ Size(Pre) > N
  /\ Cardinality(Events("construct")) > 0

\* ---- C5 -----------------------------------------------------------------
\* C5: once ~Storage() has run after Initialize and any calls of Assign, as
\* many elements were destroyed as were constructed (alive = 0), none is
\* alive, and none was destroyed while dead or built over a live one.
C5_ConstructionsEqualDestructions ==
  phase = "destroyed" =>
    /\ alive = 0
    /\ LiveTotal(St) = 0
    /\ "destroy of dead slot" \notin errs
    /\ "construct over live or wild slot" \notin errs
    /\ "free with live elements" \notin errs

C5_Witness ==
  /\ phase = "destroyed"
  /\ Pre.phase = "live"
  /\ ops > 0
  /\ IsHeap(Pre)
  /\ Size(Pre) > 0
  /\ Cardinality(Events("destroy")) = Size(Pre)

\* ---- C6 -----------------------------------------------------------------
\* C6: no buffer is ever deallocated twice, with a capacity other than the
\* one it was allocated with, or through a pointer the allocator did not
\* return; once ~Storage() has run, every buffer obtained was deallocated
\* exactly once.
C6_EveryBufferReleasedOnce ==
  /\ \A b \in Buffers :
       /\ heap[b].frees <= 1
       /\ heap[b].st = "freed" => heap[b].frees = 1 /\ heap[b].freecap = heap[b].cap
       /\ heap[b].st = "live" => heap[b].frees = 0
  /\ errs \cap {"double free", "free with wrong capacity", "free of wild pointer"} = {}
  /\ phase = "destroyed" => \A b \in Buffers : heap[b].st # "live"

\* destruction after a constructor that failed with the buffer allocated
C6_Witness ==
  /\ phase = "destroyed"
  /\ Pre.phase = "failed"
  /\ \E b \in Buffers : heap[b].st = "freed" /\ Pre.heap[b].st = "live"

\* ---- C7 -----------------------------------------------------------------
\* C7: after Initialize, Assign or ShrinkToFit has returned or thrown, every
\* slot below size in the active data region holds a live element: size never
\* exceeds the number of live elements of that region.
C7_SizeCountsLiveElements ==
  phase \in {"live", "failed"} =>
    /\ Size(St) <= LiveIn(St, View(St).data[1])
    /\ \A i \in 0..(Size(St) - 1) : Elem(St, i) # Raw

\* a failed Assign that had built part of the tail and rolled it back
C7_Witness ==
  /\ last.op = "Assign"
  /\ ElementThrew
  /\ Size(Pre) > 0
  /\ Cardinality(Events("construct")) > 0
  /\ Cardinality(Events("destroy")) = Cardinality(Events("construct"))
  /\ last.new_size <= View(Pre).capacity

\* ---- C8 -----------------------------------------------------------------
InitializeReturned == last.op = "Initialize" /\ ~last.thrown

\* C8: a successful Initialize(adapter, k) yields size k and element i equal
\* to the adapter's i-th value; with k <= N the Storage is Inline with
\* capacity N and nothing was allocated; with k > N it is Heap with a buffer
\* of capacity exactly k.
C8_InitializeResult ==
  InitializeReturned =>
    /\ Size(St) = last.new_size
    /\ \A i \in 0..(last.new_size - 1) : Elem(St, i) = AdapterValue(last.values, i)
    /\ LiveTotal(St) = last.new_size
    /\ last.new_size <= N =>
         /\ ~IsHeap(St)
         /\ View(St).capacity = N
         /\ NewBuffers = {}
         /\ Events("alloc") = {}
    /\ last.new_size > N =>
         /\ IsHeap(St)
         /\ View(St).capacity = last.new_size
         /\ NewBuffers = {data.allocated_data}
         /\ heap[data.allocated_data].st = "live"
         /\ heap[data.allocated_data].cap = last.new_size
    /\ errs = {}

C8_Witness ==
  /\ InitializeReturned
  /\ last.new_size > N
  /\ last.values.kind = "Iterator"

C8_WitnessInline ==
  /\ InitializeReturned
  /\ last.new_size = N
  /\ last.values.kind = "Iterator"

\* ---- C9 -----------------------------------------------------------------
AssignReturned == last.op = "Assign" /\ ~last.thrown

\* C9: a successful Assign(adapter, new_size) yields size new_size, element i
\* equal to the adapter's i-th value for every i < new_size, and no live
\* element anywhere else.
C9_AssignResult ==
  AssignReturned =>
    /\ Size(St) = last.new_size
    /\ \A i \in 0..(last.new_size - 1) : Elem(St, i) = AdapterValue(last.values, i)
    /\ LiveIn(St, View(St).data[1]) = last.new_size
    /\ LiveTotal(St) = last.new_size
    /\ errs = {}

\* size < new_size <= capacity on a heap Storage
C9_Witness ==
  /\ AssignReturned
  /\ last.values.kind = "Iterator"
  /\ IsHeap(Pre)
  /\ Size(Pre) > 0
  /\ Size(Pre) < last.new_size
  /\ last.new_size <= View(Pre).capacity

C9_WitnessGrow ==
  /\ AssignReturned
  /\ last.values.kind = "Iterator"
  /\ Size(Pre) > 0
  /\ last.new_size > View(Pre).capacity

C9_WitnessShrink ==
  /\ AssignReturned
  /\ last.values.kind = "Iterator"
  /\ last.new_size > 0
  /\ last.new_size < Size(Pre)

\* ---- C10 ----------------------------------------------------------------
ShrinkToFitReturned == last.op = "ShrinkToFit" /\ ~last.thrown

\* C10: a successful ShrinkToFit of a heap Storage with size <= N leaves it
\* Inline with the same size and elements and deallocates once, the original
\* buffer with the original capacity; ShrinkToFit with size = capacity
\* returns with nothing allocated, deallocated, constructed or destroyed and
\* the word, the pointer and the capacity as they were.
C10_ShrinkToFitResult ==
  /\ (ShrinkToFitReturned /\ Size(Pre) <= N) =>
       /\ ~IsHeap(St)
       /\ Size(St) = Size(Pre)
       /\ \A i \in 0..(Size(Pre) - 1) :
            Elem(St, i) # Raw /\ Elem(St, i) = Elem(Pre, i)
       /\ Events("alloc") = {}
       /\ Cardinality(Events("dealloc")) = 1
       /\ \A e \in Events("dealloc") :
            last.trace[e] = <<"dealloc", <<Pre.data.allocated_data, 0>>,
                              Pre.data.allocated_capacity>>
       /\ heap[Pre.data.allocated_data].frees = 1
       /\ heap[Pre.data.allocated_data].freecap = heap[Pre.data.allocated_data].cap
       /\ errs = {}
  /\ (last.op = "ShrinkToFit" /\ Size(Pre) = View(Pre).capacity) =>
       /\ ~last.thrown
       /\ last.trace = <<>>
       /\ word = Pre.word
       /\ data = Pre.data
       /\ heap = Pre.heap
       /\ alive = Pre.alive
       /\ errs = {}

C10_Witness ==
  /\ ShrinkToFitReturned
  /\ Size(Pre) = N
  /\ ~IsHeap(St)

C10_WitnessFull ==
  /\ last.op = "ShrinkToFit"
  /\ Size(Pre) = View(Pre).capacity

\* ---- C11 ----------------------------------------------------------------
\* C11: in every state Initialize, Assign and ShrinkToFit leave, by return or
\* by exception, exactly one representation is live.  Inline: size <= N, the
\* reported capacity is N and the Storage holds no buffer.  Heap: no object is
\* alive in the inline arena, the pointer is a buffer that is allocated and
\* not freed, the only one, size <= capacity, and the capacity is the one
\* that buffer was allocated with.
C11_OneRepresentation ==
  phase \in {"constructed", "live", "failed"} =>
    /\ ~IsHeap(St) =>
         /\ Size(St) <= N
         /\ View(St).capacity = N
         /\ View(St).data = GetInlinedData
         /\ Outstanding(St) = 0
    /\ IsHeap(St) =>
         /\ LiveIn(St, InlinedData) = 0
         /\ data.allocated_data \in Buffers
         /\ heap[data.allocated_data].st = "live"
         /\ Outstanding(St) = 1
         /\ Size(St) <= View(St).capacity
         /\ View(St).capacity = heap[data.allocated_data].cap

\* a heap Storage left by a call that threw after building in the inline
\* arena, over the pointer and the capacity
C11_Witness ==
  /\ phase = "live"
  /\ last.thrown
  /\ IsHeap(St)
  /\ Size(St) > 0
  /\ \E e \in EventsIn("construct", InlinedData) : TRUE

\* an Inline Storage left by a failed Assign
C11_WitnessInline ==
  /\ phase = "live"
  /\ last.op = "Assign"
  /\ last.thrown
  /\ ~IsHeap(St)
  /\ Size(St) > 0

\* ---- C12 ----------------------------------------------------------------
\* C12: Assign never lowers the capacity and never takes a heap Storage back
\* to Inline.  After a successful Assign(adapter, new_size) the capacity is
\* new_size when new_size exceeded the old capacity and the old capacity
\* otherwise.  With new_size <= old capacity Assign allocates nothing,
\* deallocates nothing and leaves the mode, the data pointer and every
\* buffer's allocation state as they were.
C12_AssignKeepsCapacity ==
  last.op = "Assign" =>
    /\ View(St).capacity >= View(Pre).capacity
    /\ IsHeap(Pre) => IsHeap(St)
    /\ ~last.thrown =>
         View(St).capacity = (IF last.new_size > View(Pre).capacity
                              THEN last.new_size ELSE View(Pre).capacity)
    /\ last.new_size <= View(Pre).capacity =>
         /\ Events("alloc") = {}
         /\ Events("dealloc") = {}
         /\ IsHeap(St) = IsHeap(Pre)
         /\ View(St).data = View(Pre).data
         /\ \A b \in Buffers :
              /\ heap[b].st = Pre.heap[b].st
              /\ heap[b].cap = Pre.heap[b].cap
              /\ heap[b].frees = Pre.heap[b].frees

\* a heap Storage assigned a size that would fit the inline arena
C12_Witness ==
  /\ AssignReturned
  /\ IsHeap(Pre)
  /\ last.new_size <= N
  /\ last.new_size < Size(Pre)
  /\ View(St).capacity > N

\* the capacity outgrown
C12_WitnessGrow ==
  /\ AssignReturned
  /\ IsHeap(Pre)
  /\ last.new_size > View(Pre).capacity
  /\ View(St).capacity = last.new_size

\* ---- C13 ----------------------------------------------------------------
ShrinkToFitToHeap ==
  /\ ShrinkToFitReturned
  /\ Size(Pre) > N
  /\ Size(Pre) < View(Pre).capacity

\* C13: a successful ShrinkToFit of a heap Storage with N < size < capacity
\* allocates one buffer, of capacity size; builds element 0, 1, ... of it
\* in this order, each from the element of the same index of the old buffer;
\* then destroys the size originals and deallocates the old buffer once,
\* with the old capacity; the Storage is in Heap mode and owns the new
\* buffer, with the size and the element values it had.  After any
\* successful ShrinkToFit the capacity is max(size, N).
C13_ShrinkToFitToSmallerBuffer ==
  /\ ShrinkToFitToHeap =>
       LET old == Pre.data.allocated_data
           new == data.allocated_data
           n == Size(Pre)
       IN
       /\ NewBuffers = {new}
       /\ EventSeq("alloc") = << <<"alloc", <<new, 0>>, n>> >>
       /\ EventSeq("construct")
            = [k \in 1..n |-> <<"construct", <<new, k - 1>>, Elem(Pre, k - 1)>>]
       /\ EventSeq("movefrom")
            = [k \in 1..n |-> <<"movefrom", <<old, k - 1>>,
                                EventSeq("movefrom")[k][3]>>]
       /\ Events("assign") = {}
       /\ Cardinality(Events("destroy")) = n
       /\ \A k \in 0..(n - 1) :
            \E d \in Events("destroy") :
              /\ last.trace[d][2] = <<old, k>>
              /\ \A c \in Events("construct") : c < d
       /\ EventSeq("dealloc")
            = << <<"dealloc", <<old, 0>>, Pre.data.allocated_capacity>> >>
       /\ ReleasedOnce(old, Pre.data.allocated_capacity)
       /\ IsHeap(St)
       /\ heap[new].st = "live"
       /\ heap[new].cap = n
       /\ data.allocated_capacity = n
       /\ Size(St) = n
       /\ \A i \in 0..(n - 1) : Elem(St, i) # Raw /\ Elem(St, i) = Elem(Pre, i)
       /\ LiveTotal(St) = n
       /\ errs = {}
  /\ ShrinkToFitReturned =>
       View(St).capacity = (IF Size(St) > N THEN Size(St) ELSE N)

C13_Witness ==
  /\ ShrinkToFitToHeap
  /\ IsHeap(St)
  /\ data.allocated_data # Pre.data.allocated_data
  /\ Cardinality(Events("construct")) > N

\* ---- C14 ----------------------------------------------------------------
\* the last call ended by an exception thrown by a construction: the slot
\* the throwing operation aimed at held no object before the call
ConstructThrew ==
  /\ ElementThrew
  /\ \A t \in Events("throw") : ReadSlot(Pre, last.trace[t][2]) = Raw

\* the slot ConstructElements of the last call was to start at
ConstructFirst ==
  IF last.op = "Assign" /\ last.new_size <= View(Pre).capacity
  THEN PtrAdd(View(Pre).data, Size(Pre))
  ELSE IF last.op = "Assign" THEN <<CHOOSE b \in NewBuffers : TRUE, 0>>
  ELSE IF last.op = "ShrinkToFit" /\ Size(Pre) > N
  THEN <<CHOOSE b \in NewBuffers : TRUE, 0>>
  ELSE IF last.op = "ShrinkToFit" THEN GetInlinedData
  ELSE IF last.new_size > N THEN <<CHOOSE b \in NewBuffers : TRUE, 0>>
  ELSE GetInlinedData

\* C14: when the construction of slot i of a ConstructElements call throws,
\* the call had constructed slots 0, 1, ..., i - 1 in this order and nothing
\* else; then exactly these i slots are destroyed, each once, no slot from i
\* on is constructed or destroyed, and the adapter is not asked for another
\* value: no construction, assignment or throw follows the failing one.
C14_ConstructElementsAllOrNothing ==
  ConstructThrew =>
    \A t \in Events("throw") :
      LET built == EventSeq("construct")
          i == Len(built)
          first == ConstructFirst
      IN
      /\ Cardinality(Events("throw")) = 1
      /\ last.trace[t][2] = PtrAdd(first, i)
      /\ \A k \in 1..i : built[k][2] = PtrAdd(first, k - 1)
      /\ \A c \in Events("construct") \cup Events("assign") : c < t
      /\ \A e \in Events("movefrom") : e <= t + 1
      /\ Cardinality(Events("destroy")) = i
      /\ \A d \in Events("destroy") : d > t
      /\ \A k \in 1..i :
           \E d \in Events("destroy") : last.trace[d][2] = PtrAdd(first, k - 1)
      /\ \A k \in 0..i : ReadSlot(St, PtrAdd(first, k)) = Raw
      /\ alive = Pre.alive
      /\ "destroy of dead slot" \notin errs

\* a construction of a tail that starts above slot 0 throws after two or
\* more were built
C14_Witness ==
  /\ ConstructThrew
  /\ last.op = "Assign"
  /\ ConstructFirst[2] > 0
  /\ Len(EventSeq("construct")) >= 2
  /\ Len(EventSeq("destroy")) = Len(EventSeq("construct"))

\* the first construction throws: nothing to destroy
C14_WitnessFirst ==
  /\ ConstructThrew
  /\ EventSeq("construct") = <<>>
  /\ EventSeq("destroy") = <<>>

\* ---- C15 ----------------------------------------------------------------
\* an element operation threw in Assign with new_size within the capacity
AssignInPlaceThrew ==
  /\ last.op = "Assign"
  /\ last.new_size <= View(Pre).capacity
  /\ ElementThrew

\* C15: when an assignment or a construction throws in Assign with
\* new_size <= capacity, the size, the mode, the data pointer and the
\* capacity are as before the call; exactly the slots [0, size) hold a live
\* element: every tail slot the call built was destroyed and no element
\* below size was destroyed; nothing was allocated or deallocated; every
\* slot whose assignment completed holds the assigned value, and every slot
\* the call did not reach holds the value it had.
C15_AssignInPlaceThrow ==
  AssignInPlaceThrew =>
    /\ word = Pre.word
    /\ View(St) = View(Pre)
    /\ IsHeap(St) => data = Pre.data
    /\ \A i \in 0..(Size(St) - 1) : Elem(St, i) # Raw
    /\ LiveIn(St, View(St).data[1]) = Size(St)
    /\ LiveTotal(St) = Size(St)
    /\ alive = Pre.alive
    /\ Events("alloc") = {}
    /\ Events("dealloc") = {}
    /\ \A b \in Buffers : heap[b].st = Pre.heap[b].st
    /\ \A d \in Events("destroy") :
         /\ last.trace[d][2][2] >= Size(Pre)
         /\ \E c \in Events("construct") :
              c < d /\ last.trace[c][2] = last.trace[d][2]
    /\ Cardinality(Events("destroy")) = Cardinality(Events("construct"))
    /\ LET done == EventSeq("assign") IN
       /\ \A k \in 1..Len(done) :
            /\ done[k][2] = PtrAdd(View(Pre).data, k - 1)
            /\ done[k][3] = AdapterValue(last.values, k - 1)
            /\ Elem(St, k - 1) = done[k][3]
       /\ \A i \in 0..(Size(Pre) - 1) :
            (i > Len(done)) => Elem(St, i) = Elem(Pre, i)
       /\ Len(done) < Size(Pre) =>
            Elem(St, Len(done)) \in {Elem(Pre, Len(done)),
                                     AdapterValue(last.values, Len(done))}
    /\ errs = {}

\* an assignment after the first throws: slot 0 keeps its new value
C15_Witness ==
  /\ AssignInPlaceThrew
  /\ Len(EventSeq("assign")) > 0
  /\ Elem(St, 0) # Elem(Pre, 0)
  /\ last.new_size <= Size(Pre)

\* a construction of the tail throws after every element was assigned
C15_WitnessFill ==
  /\ AssignInPlaceThrew
  /\ Size(Pre) > 0
  /\ last.new_size > Size(Pre)
  /\ Len(EventSeq("assign")) = Size(Pre)
  /\ Len(EventSeq("construct")) > 0
  /\ Elem(St, 0) # Elem(Pre, 0)

\* ---- C16 ----------------------------------------------------------------
\* the completed AssignNext / ConstructNext calls of the last call, in order
PullSeq == SelectSeq(last.trace, LAMBDA e : e[1] \in {"assign", "construct"})

\* C16: a successful Initialize(adapter, n) or Assign(adapter, n) calls
\* AssignNext / ConstructNext exactly n times; the k-th call (from 0) aims at
\* slot k of the data region the call leaves active and receives the k-th
\* value of the adapter; no call throws.  Initialize and Assign with n above
\* the capacity only construct; Assign with size < n <= capacity assigns to
\* slots [0, size) and then constructs slots [size, n); Assign with
\* n <= size only assigns.
C16_AdapterPulledInOrder ==
  (InitializeReturned \/ AssignReturned) =>
    LET n == last.new_size
        assigned == IF last.op = "Initialize" \/ n > View(Pre).capacity THEN 0
                    ELSE IF n > Size(Pre) THEN Size(Pre)
                    ELSE n
    IN
    /\ Len(PullSeq) = n
    /\ Events("throw") = {}
    /\ \A k \in 1..n :
         /\ PullSeq[k][2] = PtrAdd(View(St).data, k - 1)
         /\ PullSeq[k][3] = AdapterValue(last.values, k - 1)
         /\ PullSeq[k][1] = (IF k <= assigned THEN "assign" ELSE "construct")

\* Assign with size < n <= capacity from an iterator: assignments, then
\* constructions that continue the range
C16_Witness ==
  /\ AssignReturned
  /\ last.values.kind = "Iterator"
  /\ Len(EventSeq("assign")) > 0
  /\ Len(EventSeq("construct")) > 0
  /\ PullSeq[last.new_size][3] = InputValue(last.new_size - 1)

\* ---- C17 ----------------------------------------------------------------
\* The points of the last call: point i is reached after i events.  The
\* allocation and the recording of its result are one statement of
\* AllocationTransaction::Allocate, so no point lies between them.
Points == {i \in 0..Len(last.trace) : (i + 1) \notin Events("hold")}

\* buffer b is allocated and not yet freed at point i
LiveAt(b, i) ==
  /\ \/ Pre.heap[b].st = "live"
     \/ \E e \in EventsIn("alloc", b) : e <= i
  /\ \A e \in EventsIn("dealloc", b) : e > i

\* the transaction of the last call holds b at point i: it recorded b and
\* has not handed it over
TxHoldsAt(b, i) ==
  /\ \E e \in EventsIn("hold", b) : e <= i
  /\ \A e \in Events("adopt") : e > i

\* the Storage holds b at point i: b is the buffer it adopted last, or the
\* one it held when the call began
StorageHoldsAt(b, i) ==
  LET adopted == {e \in Events("adopt") : e <= i} IN
  IF adopted # {}
  THEN \E e \in adopted :
         /\ \A f \in adopted : f <= e
         /\ last.trace[e][2][1] = b
  ELSE IsHeap(Pre) /\ Pre.data.allocated_data = b

\* C17: the transaction of a call records at most one buffer, the one the
\* allocator just returned, with the capacity asked for.  At every point of
\* Assign and ShrinkToFit each buffer that is allocated and not freed is
\* held by the Storage or by the transaction and not by both.
\* AcquireAllocation hands the recorded buffer and capacity to the Storage
\* and clears the transaction: at scope exit DidAllocate() is false and the
\* buffer is not deallocated.  A transaction that holds a buffer at scope
\* exit deallocates it, once, with the capacity it was allocated with, as
\* the last step of the call.
C17_OneOwner ==
  /\ Cardinality(Events("hold")) <= 1
  /\ \A h \in Events("hold") :
       /\ h > 1
       /\ last.trace[h - 1] = <<"alloc", last.trace[h][2], last.trace[h][3]>>
  /\ last.op \in {"Assign", "ShrinkToFit"} =>
       \A i \in Points : \A b \in Buffers :
         LiveAt(b, i) => (TxHoldsAt(b, i) # StorageHoldsAt(b, i))
  /\ \A a \in Events("adopt") :
       LET b == last.trace[a][2][1]
           cap == last.trace[a][3]
       IN
       /\ \E h \in Events("hold") :
            h < a /\ last.trace[h] = <<"hold", <<b, 0>>, cap>>
       /\ last.tx.data = NullPtr
       /\ EventsIn("dealloc", b) = {}
       /\ heap[b].st = "live"
       /\ heap[b].cap = cap
       /\ heap[b].frees = 0
       /\ data.allocated_data = b
       /\ data.allocated_capacity = cap
  /\ last.tx.data # NullPtr =>
       /\ Events("adopt") = {}
       /\ Events("hold") # {}
       /\ heap[last.tx.data].cap = last.tx.capacity
       /\ ReleasedOnce(last.tx.data, last.tx.capacity)
       /\ last.trace[Len(last.trace)]
            = <<"dealloc", <<last.tx.data, 0>>, last.tx.capacity>>
       /\ ~(IsHeap(St) /\ data.allocated_data = last.tx.data)
  /\ (last.tx.data = NullPtr /\ Events("hold") # {}) => Events("adopt") # {}
  /\ errs \cap {"double free", "free with wrong capacity",
                "free of wild pointer"} = {}

\* a heap Storage adopted the buffer of the transaction
C17_Witness ==
  /\ IsHeap(Pre)
  /\ Events("adopt") # {}
  /\ last.tx.data = NullPtr
  /\ data.allocated_data # Pre.data.allocated_data

\* the transaction of a heap Storage still held its buffer at scope exit
C17_WitnessRelease ==
  /\ IsHeap(Pre)
  /\ last.tx.data # NullPtr
  /\ heap[last.tx.data].st = "freed"
  /\ heap[Pre.data.allocated_data].st = "live"

\* ---- C18 ----------------------------------------------------------------
\* events of the last call that touch an element of region r
ElementEventsIn(r) ==
  {e \in 1..Len(last.trace) :
     /\ last.trace[e][1] \in {"construct", "assign", "movefrom", "destroy", "throw"}
     /\ last.trace[e][2][1] = r}

AssignGrowReturned == AssignReturned /\ last.new_size > View(Pre).capacity

\* C18: in every call a buffer is deallocated only after each element that
\* was alive in it, before the call or built by the call, was destroyed, and
\* no element of a buffer is constructed, assigned, moved from or destroyed
\* after the buffer was deallocated.  In a successful Assign with new_size
\* above the capacity all new_size constructions in the new buffer precede
\* the first destruction of an old element and the deallocation of the old
\* buffer, and the new buffer is adopted after the old one was deallocated.
C18_DestroyBeforeDeallocate ==
  /\ \A d \in Events("dealloc") :
       LET b == last.trace[d][2][1] IN
       /\ \A e \in ElementEventsIn(b) : e < d
       /\ \A c \in EventsIn("construct", b) :
            \E x \in EventsIn("destroy", b) :
              c < x /\ x < d /\ last.trace[x][2] = last.trace[c][2]
       /\ b \in Buffers /\ Pre.heap[b].st = "live" =>
            \A i \in 0..(Pre.heap[b].cap - 1) :
              ReadSlot(Pre, <<b, i>>) # Raw =>
                \E x \in EventsIn("destroy", b) :
                  x < d /\ last.trace[x][2] = <<b, i>>
  /\ "free with live elements" \notin errs
  /\ AssignGrowReturned =>
       LET old == View(Pre).data[1]
           new == data.allocated_data
           built == EventsIn("construct", new)
       IN
       /\ Cardinality(built) = last.new_size
       /\ Cardinality(EventsIn("destroy", old)) = Size(Pre)
       /\ \A c \in built :
            /\ \A x \in EventsIn("destroy", old) : c < x
            /\ \A d \in EventsIn("dealloc", old) : c < d
       /\ IsHeap(Pre) => Cardinality(EventsIn("dealloc", old)) = 1
       /\ Cardinality(EventsIn("adopt", new)) = 1
       /\ \A a \in EventsIn("adopt", new) :
            /\ \A d \in EventsIn("dealloc", old) : d < a
            /\ \A x \in EventsIn("destroy", old) : x < a

\* ~Storage() of a heap Storage with elements
C18_Witness ==
  /\ last.op = "~Storage"
  /\ IsHeap(Pre)
  /\ Cardinality(EventsIn("destroy", Pre.data.allocated_data)) >= 2
  /\ Cardinality(EventsIn("dealloc", Pre.data.allocated_data)) = 1

\* a heap Storage with elements outgrown by Assign
C18_WitnessGrow ==
  /\ AssignGrowReturned
  /\ IsHeap(Pre)
  /\ Size(Pre) > 0
  /\ Events("adopt") # {}
  /\ Events("dealloc") # {}

\* ShrinkToFit into a smaller buffer
C18_WitnessShrink ==
  /\ ShrinkToFitReturned
  /\ Events("adopt") # {}
  /\ Cardinality(EventsIn("movefrom", Pre.data.allocated_data)) = Size(Pre)

\* ---- C19 ----------------------------------------------------------------
\* C19: in every state Initialize, Assign and ShrinkToFit reach from the
\* empty inline Storage, by return or by exception, a Storage in Heap mode
\* has a capacity above N.  So a ShrinkToFit call that finds size = capacity
\* has size > N, and one that finds size <= N finds size < capacity and
\* relocates into the inline arena.
C19_HeapCapacityAboveN ==
  /\ (phase \in {"constructed", "live", "failed"} /\ IsHeap(St)) =>
       /\ data.allocated_capacity > N
       /\ heap[data.allocated_data].cap > N
  /\ last.op = "ShrinkToFit" =>
       /\ View(Pre).capacity > N
       /\ Size(Pre) = View(Pre).capacity => Size(Pre) > N
       /\ Size(Pre) <= N =>
            /\ Size(Pre) < View(Pre).capacity
            /\ last.trace # <<>>
            /\ ~last.thrown => ~IsHeap(St)

\* ShrinkToFit of a heap Storage whose elements fill the inline arena
C19_Witness ==
  /\ last.op = "ShrinkToFit"
  /\ Size(Pre) = N
  /\ View(Pre).capacity > N
  /\ ~last.thrown
  /\ Events("dealloc") # {}

\* an empty heap Storage
C19_WitnessEmpty ==
  /\ phase = "live"
  /\ IsHeap(St)
  /\ Size(St) = 0
  /\ last.op = "Assign"

\* ---- C20 ----------------------------------------------------------------
\* sizes the packed word can hold: one bit of size_type is the mode
HalfRange == 2 ^ (WordBits - 1)

\* C20: for every size s < 2^(w-1), GetSize() is s after SetSize(s),
\* SetInlinedSize(s) and SetAllocatedSize(s).  SetSize, AddSize(c) with
\* size + c < 2^(w-1) and SubtractSize(c) with c <= size leave
\* GetIsAllocated() as it was.  SetIsAllocated and UnsetIsAllocated leave
\* GetSize() as it was, set and clear the mode, and applied again change
\* nothing.
C20_SizeAndModeOrthogonal ==
  /\ (last.op \in {"SetSize", "SetInlinedSize", "SetAllocatedSize"}
        /\ last.new_size < HalfRange) =>
       GetSize(St) = last.new_size
  /\ last.op = "SetSize" => GetIsAllocated(St) = GetIsAllocated(Pre)
  /\ last.op = "SetInlinedSize" => ~GetIsAllocated(St)
  /\ last.op = "SetAllocatedSize" => GetIsAllocated(St)
  /\ (last.op = "AddSize" /\ GetSize(Pre) + last.new_size < HalfRange) =>
       /\ GetIsAllocated(St) = GetIsAllocated(Pre)
       /\ GetSize(St) = GetSize(Pre) + last.new_size
  /\ (last.op = "SubtractSize" /\ last.new_size <= GetSize(Pre)) =>
       /\ GetIsAllocated(St) = GetIsAllocated(Pre)
       /\ GetSize(St) = GetSize(Pre) - last.new_size
  /\ last.op = "SetIsAllocated" =>
       /\ GetSize(St) = GetSize(Pre)
       /\ GetIsAllocated(St)
       /\ SetIsAllocated(St) = St
  /\ last.op = "UnsetIsAllocated" =>
       /\ GetSize(St) = GetSize(Pre)
       /\ ~GetIsAllocated(St)
       /\ UnsetIsAllocated(St) = St
  /\ word \in SizeType

\* AddSize up to the largest size on a word with the mode bit set
C20_Witness ==
  /\ last.op = "AddSize"
  /\ GetIsAllocated(Pre)
  /\ last.new_size > 0
  /\ GetSize(Pre) > 0
  /\ GetSize(Pre) + last.new_size = HalfRange - 1
  /\ GetIsAllocated(St)

\* UnsetIsAllocated on a word whose mode bit is clear
C20_WitnessUnset ==
  /\ last.op = "UnsetIsAllocated"
  /\ ~GetIsAllocated(Pre)
  /\ GetSize(Pre) = HalfRange - 1
  /\ word = Pre.word

====
